---- MODULE Spec2Model ----
(***************************************************************************)
(* The location widget of Tide-Report, in its three variants:              *)
(*   "readme" : class LocationWidget            (src/README.md)            *)
(*   "public" : createLocationWidget            (src/public/location-widget.js) *)
(*   "part"   : createLocationWidget            (src/unnamed/part_000)     *)
(* One widget instance is modelled; its variant is fixed at construction.  *)
(* Text is a sequence of one-character strings.  A JavaScript number is a  *)
(* fixed-point integer (Scale units per 1), NaN and strings are kept apart *)
(* from numbers by a type tag.                                             *)
(***************************************************************************)
EXTENDS Integers, Sequences, FiniteSets, TLC

\* ------------------------------------------------------------------ bounds
\* Requests to the geocoder that may be in flight at once.
MaxInflight == 2
\* Entries in one geocoder response.
MaxResults == 2
\* Entries of the browser's timer table.
MaxTimers == 2
\* ArrowDown presses in a row that are counted.
MaxDowns == 3

\* ------------------------------------------------------------ JS values
\* Fixed-point unit: two fractional decimal digits are kept.
Scale == 10 * 10

Num(k) == [t |-> "num", n |-> k, s |-> <<>>]
Str(x) == [t |-> "str", n |-> 0, s |-> x]
NaN == [t |-> "nan", n |-> 0, s |-> <<>>]
IsNumber(v) == v.t = "num"

Digits == {"0", "1", "2", "3", "4", "5", "6", "7", "8", "9"}

DigitVal(c) ==
  CASE c = "0" -> 0 [] c = "1" -> 1 [] c = "2" -> 2 [] c = "3" -> 3
    [] c = "4" -> 4 [] c = "5" -> 5 [] c = "6" -> 6 [] c = "7" -> 7
    [] c = "8" -> 8 [] c = "9" -> 9

DigitChar(d) ==
  CASE d = 0 -> "0" [] d = 1 -> "1" [] d = 2 -> "2" [] d = 3 -> "3"
    [] d = 4 -> "4" [] d = 5 -> "5" [] d = 6 -> "6" [] d = 7 -> "7"
    [] d = 8 -> "8" [] d = 9 -> "9"

IsSpace(c) == c = " "

\* String.prototype.trim
RECURSIVE TrimStart(_)
TrimStart(s) ==
  IF s # <<>> /\ IsSpace(s[1]) THEN TrimStart(Tail(s)) ELSE s

RECURSIVE TrimEnd(_)
TrimEnd(s) ==
  IF s # <<>> /\ IsSpace(s[Len(s)]) THEN TrimEnd(SubSeq(s, 1, Len(s) - 1)) ELSE s

Trim(s) == TrimEnd(TrimStart(s))

AllDigits(s) == \A i \in 1..Len(s) : s[i] \in Digits

\* Number of leading digit characters of s.
RECURSIVE DigitPrefixLen(_)
DigitPrefixLen(s) ==
  IF s # <<>> /\ s[1] \in Digits THEN 1 + DigitPrefixLen(Tail(s)) ELSE 0

\* Value of a digit string as a natural number.
RECURSIVE NatVal(_)
NatVal(s) ==
  IF s = <<>> THEN 0 ELSE 10 * NatVal(SubSeq(s, 1, Len(s) - 1)) + DigitVal(s[Len(s)])

\* Value of a fraction's digit string in Scale units (digits past the second
\* are dropped).
FracVal(s) ==
  (IF Len(s) >= 1 THEN DigitVal(s[1]) * (Scale \div 10) ELSE 0)
  + (IF Len(s) >= 2 THEN DigitVal(s[2]) ELSE 0)

\* parseFloat on a string: leading blanks skipped, then the longest prefix
\* <sign>digits[.digits]; NaN when there is no digit.
ParseFloatText(s) ==
  LET t == TrimStart(s)
      neg == t # <<>> /\ t[1] = "-"
      u == IF t # <<>> /\ t[1] \in {"-", "+"} THEN Tail(t) ELSE t
      ip == DigitPrefixLen(u)
      rest == SubSeq(u, ip + 1, Len(u))
      fp == IF rest # <<>> /\ rest[1] = "." THEN DigitPrefixLen(Tail(rest)) ELSE 0
      mag == NatVal(SubSeq(u, 1, ip)) * Scale + FracVal(SubSeq(rest, 2, fp + 1))
  IN IF ip = 0 /\ fp = 0 THEN NaN ELSE Num(IF neg THEN 0 - mag ELSE mag)

RECURSIVE NatToText(_)
NatToText(k) ==
  IF k < 10 THEN <<DigitChar(k)>> ELSE NatToText(k \div 10) \o <<DigitChar(k % 10)>>

\* Number.prototype.toString / template interpolation of a number.
NumToText(k) ==
  LET mag == IF k < 0 THEN 0 - k ELSE k
      ip == mag \div Scale
      fr == mag % Scale
      d1 == fr \div (Scale \div 10)
      d2 == fr % (Scale \div 10)
      frac == IF fr = 0 THEN <<>>
              ELSE IF d2 = 0 THEN <<".", DigitChar(d1)>>
              ELSE <<".", DigitChar(d1), DigitChar(d2)>>
  IN (IF k < 0 THEN <<"-">> ELSE <<>>) \o NatToText(ip) \o frac

\* String(v): what `${v}` puts into a template.
ToText(v) ==
  IF v.t = "num" THEN NumToText(v.n)
  ELSE IF v.t = "nan" THEN <<"NaN">>
  ELSE v.s

\* parseFloat(v) for any value: the argument is converted to a string first.
ParseFloat(v) == IF v.t = "nan" THEN NaN ELSE ParseFloatText(ToText(v))

\* ------------------------------------------------- coordinate grammars
\* The token after an optional "-" for each variant's number pattern.
\* part_000:  \d+(\.\d+)?
PartNumberBody(b) ==
  LET ip == DigitPrefixLen(b)
      rest == SubSeq(b, ip + 1, Len(b))
  IN /\ ip >= 1
     /\ \/ rest = <<>>
        \/ /\ rest[1] = "."
           /\ Len(rest) >= 2
           /\ AllDigits(Tail(rest))

\* README.md:  \d+\.?\d*
ReadmeNumberBody(b) ==
  LET ip == DigitPrefixLen(b)
      rest == SubSeq(b, ip + 1, Len(b))
  IN /\ ip >= 1
     /\ \/ rest = <<>>
        \/ /\ rest[1] = "."
           /\ AllDigits(Tail(rest))

\* public/location-widget.js:  \d+\.?\d+   (the last \d+ needs a digit of its own)
PublicNumberBody(b) ==
  LET ip == DigitPrefixLen(b)
      rest == SubSeq(b, ip + 1, Len(b))
  IN \/ ip >= 2 /\ rest = <<>>
     \/ /\ ip >= 1
        /\ rest # <<>>
        /\ rest[1] = "."
        /\ Len(rest) >= 2
        /\ AllDigits(Tail(rest))

Unsigned(tok) == IF tok # <<>> /\ tok[1] = "-" THEN Tail(tok) ELSE tok

Commas(s) == {i \in 1..Len(s) : s[i] = ","}

\* The two capture groups of  ^(NUM)\s*,\s*(NUM)$ : a number token holds neither
\* a comma nor a blank, so the text splits at its only comma.
LeftToken(s) == LET k == CHOOSE i \in Commas(s) : TRUE IN TrimEnd(SubSeq(s, 1, k - 1))
RightToken(s) == LET k == CHOOSE i \in Commas(s) : TRUE IN TrimStart(SubSeq(s, k + 1, Len(s)))

PartPatternMatches(s) ==
  /\ Cardinality(Commas(s)) = 1
  /\ PartNumberBody(Unsigned(LeftToken(s)))
  /\ PartNumberBody(Unsigned(RightToken(s)))

ReadmePatternMatches(s) ==
  /\ Cardinality(Commas(s)) = 1
  /\ ReadmeNumberBody(Unsigned(LeftToken(s)))
  /\ ReadmeNumberBody(Unsigned(RightToken(s)))

PublicPatternMatches(s) ==
  /\ Cardinality(Commas(s)) = 1
  /\ PublicNumberBody(Unsigned(LeftToken(s)))
  /\ PublicNumberBody(Unsigned(RightToken(s)))

Null == [ok |-> FALSE, lat |-> NaN, lon |-> NaN]

InRange(lat, lon) ==
  /\ lat.t = "num" /\ lon.t = "num"
  /\ lat.n >= 0 - 90 * Scale /\ lat.n <= 90 * Scale
  /\ lon.n >= 0 - 180 * Scale /\ lon.n <= 180 * Scale

\* public/location-widget.js parseCoordinates: numbers, range-checked.
parseCoordinates(text) ==
  LET s == Trim(text) IN
  IF PublicPatternMatches(s)
  THEN LET lat == ParseFloatText(LeftToken(s))
           lon == ParseFloatText(RightToken(s))
       IN IF InRange(lat, lon) THEN [ok |-> TRUE, lat |-> lat, lon |-> lon] ELSE Null
  ELSE Null

\* part_000 parseLatLon: the matched substrings, as strings, not range-checked.
parseLatLon(text) ==
  LET s == Trim(text) IN
  IF PartPatternMatches(s)
  THEN [ok |-> TRUE, lat |-> Str(LeftToken(s)), lon |-> Str(RightToken(s))]
  ELSE Null

\* README.md handleSearch, lines 156-164: match, parseFloat, range check.
ReadmeCoordinates(query) ==
  IF ReadmePatternMatches(query)
  THEN LET lat == ParseFloatText(LeftToken(query))
           lon == ParseFloatText(RightToken(query))
       IN IF InRange(lat, lon) THEN [ok |-> TRUE, lat |-> lat, lon |-> lon] ELSE Null
  ELSE Null

\* ------------------------------------------------------------ inputs
\* What the user may type into the input field.
Texts ==
  { <<>>,
    <<"S">>,
    <<"S", "a">>,
    <<"5", ",", " ", "6">>,
    <<"5", ".", "5", ",", "-", "6", "6">>,
    <<"9", "5", ",", "6", "6">>,
    <<" ", "S">> }

\* Entries the geocoder may return: well-formed, out of range, not numeric.
RawEntries ==
  { [display_name |-> <<"S", "F">>, lat |-> Str(<<"3", "7", ".", "5">>), lon |-> Str(<<"-", "1", "2", "2">>)],
    [display_name |-> <<"X">>, lat |-> Str(<<"9", "5">>), lon |-> Str(<<"1", "0">>)],
    [display_name |-> <<"Y">>, lat |-> Str(<<"a">>), lon |-> Str(<<"1">>)] }

\* A response lists each place once.
RawLists ==
  {l \in UNION {[1..k -> RawEntries] : k \in 0..MaxResults} :
     \A i, j \in 1..Len(l) : i # j => l[i] # l[j]}

\* How a request may end: a 2xx JSON array, a non-2xx status, a network error,
\* a body that is not JSON, a JSON body that is not an array: an object or
\* null ("notarray"), or a value with a positive length such as a string
\* ("arraylike").
Failures == {"http", "throw", "notjson", "notarray", "arraylike"}

Outcomes ==
  {[kind |-> "ok", list |-> l] : l \in RawLists}
  \cup {[kind |-> k, list |-> <<>>] : k \in Failures}

Keys == {"ArrowDown", "ArrowUp", "Enter", "Escape"}

NoTimer == 0 - 1

\* The value of the press count while no run of ArrowDown presses is under way.
NoCount == 0 - 1

\* ------------------------------------------------------------- state
VARIABLES
  variant,        \* which of the three widgets this instance is
  inputValue,     \* input.value
  typed,          \* the text of the last 'input' event (history)
  timers,         \* the browser's pending timeouts: [id, query]
  timerHandle,    \* debounce's `timeout` / `t`, this.debounceTimer
  currentQuery,   \* this.currentQuery (README.md)
  inflight,       \* requests not yet settled, in issue order: [query, latest]
  content,        \* what the suggestion element holds: none, items, loading, notfound, failed
  items,          \* the rendered candidates, in order
  visible,        \* whether the suggestion element is shown
  rendered,       \* how current the search was whose outcome the element holds,
                  \* when it was put there (history): latest, sametext, stale
  selectedIndex,  \* part_000's selectedIndex
  emitted,        \* location-selected details dispatched on window by the last step
  downs,          \* part_000: ArrowDown presses in a row since the list was rendered
                  \* from fetched results (history); NoCount when none is counted
  container,      \* whether the mount container was found at construction
  thrown,         \* whether the last step let an exception or a rejected promise
                  \* escape (history)
  settled         \* how current the request was that the last step settled (history):
                  \* none when the last step settled no request

vars ==
  <<variant, inputValue, typed, timers, timerHandle, currentQuery,
    inflight, content, items, visible, rendered, selectedIndex, emitted, downs,
    container, thrown, settled>>

list == <<content, items, visible, rendered>>

Init ==
  /\ variant \in {"readme", "public", "part"}
  /\ inputValue = <<>>
  /\ typed = <<>>
  /\ timers = {}
  /\ timerHandle = NoTimer
  /\ currentQuery = <<>>
  /\ inflight = <<>>
  /\ content = "none"
  /\ items = <<>>
  /\ visible = FALSE
  /\ rendered = "latest"
  /\ selectedIndex = 0 - 1
  /\ emitted = <<>>
  /\ downs = NoCount
  /\ container \in (IF variant = "public" THEN {TRUE} ELSE BOOLEAN)
  /\ thrown = FALSE
  /\ settled = "none"

\* The listeners and timers exist only if construction found the container.
Mounted == container /\ UNCHANGED container

\* The handler runs to its end.
NoThrow == thrown' = FALSE

\* setTimeout's return value: an id no pending timeout has.
FreshId(tbl) == CHOOSE i \in 0..Cardinality(tbl) : \A tm \in tbl : tm.id # i

\* clearTimeout(handle)
ClearTimeout(tbl, handle) == {tm \in tbl : tm.id # handle}

\* window.dispatchEvent(new CustomEvent('location-selected', {detail}))
DispatchEvent(detail) == emitted' = <<detail>>

\* A handler that dispatches nothing.
NoEvent == emitted' = <<>>

\* fetch(url): the request joins those in flight as the latest one.
Fetch(query) ==
  [i \in 1..Len(inflight) |-> [inflight[i] EXCEPT !.latest = FALSE]]
    \o <<[query |-> query, latest |-> TRUE]>>

\* A handler run that issues no request still supersedes those in flight.
Supersede == [i \in 1..Len(inflight) |-> [inflight[i] EXCEPT !.latest = FALSE]]

\* The requests in flight without the k-th.
Settle(k) == SubSeq(inflight, 1, k - 1) \o SubSeq(inflight, k + 1, Len(inflight))

\* A settled request against the searches forwarded since it was issued: still
\* the latest one, superseded, or (README.md, which compares the text)
\* superseded by a search for the same text.
Currency(f) ==
  IF f.latest THEN "latest"
  ELSE IF variant = "readme" /\ f.query = currentQuery THEN "sametext"
  ELSE "stale"

\* "Coordinates: <lat>, <lon>" ; the fixed prefix is kept as one element.
CoordinatesLabel(prefix, lat, lon) ==
  <<prefix>> \o ToText(lat) \o <<",", " ">> \o ToText(lon)

PlainLabel(lat, lon) == ToText(lat) \o <<",", " ">> \o ToText(lon)

\* A rendered candidate: the text of its element and the location its click
\* handler (or its data attributes) carries.
Item(label, name, lat, lon) ==
  [label |-> label, display_name |-> name, lat |-> lat, lon |-> lon]

\* ============================================================ README.md
MIN_QUERY_LENGTH == 2

\* clearTimeout(this.debounceTimer)
ReadmeCancelPending == ClearTimeout(timers, timerHandle)

\* the 'input' listener of attachEventListeners
ReadmeInput(text) ==
  /\ variant = "readme"
  /\ Mounted
  /\ settled' = "none"
  /\ NoThrow
  /\ UNCHANGED downs
  /\ inputValue' = text
  /\ typed' = text
  /\ LET query == Trim(text)
         pending == ReadmeCancelPending
     IN IF Len(query) < MIN_QUERY_LENGTH
        THEN /\ timers' = pending
             /\ visible' = FALSE
             /\ UNCHANGED timerHandle
        ELSE /\ Cardinality(pending) < MaxTimers
             /\ timers' = pending \cup {[id |-> FreshId(pending), query |-> query]}
             /\ timerHandle' = FreshId(pending)
             /\ UNCHANGED visible
  /\ NoEvent
  /\ UNCHANGED <<variant, currentQuery, inflight, content, items,
                 rendered, selectedIndex>>

\* showSuggestions(results)
ReadmeShowSuggestions(results, by) ==
  /\ content' = "items"
  /\ items' = [i \in 1..Len(results) |->
                 Item(results[i].display_name, results[i].display_name,
                      results[i].lat, results[i].lon)]
  /\ visible' = TRUE
  /\ rendered' = by

\* showLoading()
ReadmeShowLoading(by) ==
  /\ content' = "loading"
  /\ items' = <<>>
  /\ visible' = TRUE
  /\ rendered' = by

\* showError(message)
ReadmeShowError(kind, by) ==
  /\ content' = kind
  /\ items' = <<>>
  /\ visible' = TRUE
  /\ rendered' = by

\* hideSuggestions()
ReadmeHideSuggestions == visible' = FALSE

\* The debounce timer fires: handleSearch(query) up to its await.
ReadmeHandleSearch(tm) ==
  /\ variant = "readme"
  /\ Mounted
  /\ settled' = "none"
  /\ NoThrow
  /\ UNCHANGED downs
  /\ tm \in timers
  /\ timers' = timers \ {tm}
  /\ currentQuery' = tm.query
  /\ LET c == ReadmeCoordinates(tm.query) IN
     IF c.ok
     THEN /\ ReadmeShowSuggestions(
               << [display_name |-> CoordinatesLabel("Coordinates: ", c.lat, c.lon),
                   lat |-> Str(ToText(c.lat)),
                   lon |-> Str(ToText(c.lon))] >>,
               "latest")
          /\ inflight' = Supersede
     ELSE /\ Len(inflight) < MaxInflight
          /\ ReadmeShowLoading("latest")
          /\ inflight' = Fetch(tm.query)
  /\ NoEvent
  /\ UNCHANGED <<variant, inputValue, typed, timerHandle, selectedIndex>>

\* The staleness guard left out: every settled request counts as current.
IsCurrentQueryAlways(query) == TRUE

\* query === this.currentQuery
IsCurrentQuery(query) == query = currentQuery

\* What makes geocode reject, or the code after the await throw: the explicit
\* throw on a non-2xx status, a network error, response.json() on a body that
\* is not JSON, results.forEach on a value that is not an array.
ReadmeRaises(kind) == kind \in {"http", "throw", "notjson", "arraylike"}

\* A catch that handles network errors only.
ReadmeCatchesNetworkOnly(kind) == kind = "throw"

\* try { ... } catch (error): the block holds the await and the rendering.
ReadmeCatches(kind) == TRUE

\* geocode(query) settles and handleSearch resumes after its await.
ReadmeFetchDone(k, o) ==
  /\ variant = "readme"
  /\ Mounted
  /\ k \in 1..Len(inflight)
  /\ UNCHANGED downs
  /\ settled' = Currency(inflight[k])
  /\ inflight' = Settle(k)
  /\ thrown' = (ReadmeRaises(o.kind) /\ ~ReadmeCatches(o.kind))
  /\ IF ReadmeRaises(o.kind)
     THEN IF IsCurrentQuery(inflight[k].query)
          THEN ReadmeShowError("failed", Currency(inflight[k]))
          ELSE UNCHANGED list
     ELSE IF IsCurrentQuery(inflight[k].query)
          THEN IF o.kind = "ok" /\ Len(o.list) > 0
               THEN ReadmeShowSuggestions(o.list, Currency(inflight[k]))
               ELSE ReadmeShowError("notfound", Currency(inflight[k]))
          ELSE UNCHANGED list
  /\ NoEvent
  /\ UNCHANGED <<variant, inputValue, typed, timers, timerHandle, currentQuery, selectedIndex>>

\* selectLocation(location)
ReadmeSelectLocation(location) ==
  /\ inputValue' = location.display_name
  /\ ReadmeHideSuggestions
  /\ DispatchEvent([display_name |-> location.display_name,
                    lat |-> ParseFloat(location.lat),
                    lon |-> ParseFloat(location.lon)])

\* A pointer click on the i-th rendered suggestion.
ReadmeClickItem(i) ==
  /\ variant = "readme"
  /\ Mounted
  /\ settled' = "none"
  /\ NoThrow
  /\ UNCHANGED downs
  /\ visible
  /\ content = "items"
  /\ i \in 1..Len(items)
  /\ ReadmeSelectLocation(items[i])
  /\ UNCHANGED <<variant, typed, timers, timerHandle, currentQuery,
                 inflight, content, items, rendered, selectedIndex>>

\* the document 'click' listener, for a target outside the container
ReadmeOutsideClick ==
  /\ variant = "readme"
  /\ Mounted
  /\ settled' = "none"
  /\ NoThrow
  /\ UNCHANGED downs
  /\ ReadmeHideSuggestions
  /\ NoEvent
  /\ UNCHANGED <<variant, inputValue, typed, timers, timerHandle, currentQuery, inflight, content, items, rendered, selectedIndex>>

\* A click inside the container that is on no suggestion (the input, the
\* loading or error box): the document listener finds the target inside.
ReadmeInsideClick ==
  /\ variant = "readme"
  /\ Mounted
  /\ UNCHANGED downs
  /\ settled' = "none"
  /\ NoThrow
  /\ NoEvent
  /\ UNCHANGED <<variant, inputValue, typed, timers, timerHandle, currentQuery, inflight, content, items, visible, rendered, selectedIndex>>

\* the 'keydown' listener
ReadmeKeydown(key) ==
  /\ variant = "readme"
  /\ Mounted
  /\ settled' = "none"
  /\ NoThrow
  /\ UNCHANGED downs
  /\ IF key = "Escape" THEN ReadmeHideSuggestions ELSE UNCHANGED visible
  /\ NoEvent
  /\ UNCHANGED <<variant, inputValue, typed, timers, timerHandle, currentQuery, inflight, content, items, rendered, selectedIndex>>

\* The methods a host may call on a LocationWidget it constructed.
ReadmeMethods == {"hideSuggestions", "selectLocation", "handleSearch"}

\* A method called on a widget whose constructor returned early (container not
\* found): this.input and this.suggestionsContainer were never assigned, so
\* the first access through them throws a TypeError; handleSearch has set
\* currentQuery by then and its promise rejects.
ReadmeInertCall(op, text) ==
  /\ variant = "readme"
  /\ ~container
  /\ op \in ReadmeMethods
  /\ currentQuery' = IF op = "handleSearch" THEN Trim(text) ELSE currentQuery
  /\ thrown' = TRUE
  /\ settled' = "none"
  /\ NoEvent
  /\ UNCHANGED <<variant, inputValue, typed, timers, timerHandle, inflight, content,
                 items, visible, rendered, selectedIndex, downs, container>>

\* ================================================== unnamed/part_000
\* A method (focus, getValue) called on what createLocationWidget returned
\* when the container was not found: the value is undefined and the call
\* throws a TypeError.
PartInertCall ==
  /\ variant = "part"
  /\ ~container
  /\ thrown' = TRUE
  /\ settled' = "none"
  /\ NoEvent
  /\ UNCHANGED <<variant, inputValue, typed, timers, timerHandle, currentQuery, inflight,
                 content, items, visible, rendered, selectedIndex, downs, container>>

\* debounce without its clearTimeout: the pending timeout is kept.
PartKeepPending == timers

\* debounce: clearTimeout(t)
PartCancelPending == ClearTimeout(timers, timerHandle)

\* the 'input' listener: doSearch(), the debounced wrapper
PartInput(text) ==
  /\ variant = "part"
  /\ Mounted
  /\ downs' = NoCount
  /\ settled' = "none"
  /\ NoThrow
  /\ inputValue' = text
  /\ typed' = text
  /\ Cardinality(PartCancelPending) < MaxTimers
  /\ timers' = PartCancelPending \cup {[id |-> FreshId(PartCancelPending), query |-> <<>>]}
  /\ timerHandle' = FreshId(PartCancelPending)
  /\ NoEvent
  /\ UNCHANGED <<variant, currentQuery, inflight, content, items, visible,
                 rendered, selectedIndex>>

\* showSuggestions(list): the <li> elements carry display_name as text and
\* lat/lon as data attributes, which are strings.
PartShowSuggestions(lst, by) ==
  IF Len(lst) = 0
  THEN /\ visible' = FALSE
       /\ content' = "none"
       /\ items' = <<>>
       /\ rendered' = by
  ELSE /\ visible' = TRUE
       /\ content' = "items"
       /\ items' = [i \in 1..Len(lst) |->
                      Item(lst[i].display_name, lst[i].display_name,
                           Str(ToText(lst[i].lat)), Str(ToText(lst[i].lon)))]
       /\ rendered' = by

\* The debounce timer fires: the body of doSearch up to its await.
PartDoSearch(tm) ==
  /\ variant = "part"
  /\ Mounted
  /\ downs' = NoCount
  /\ settled' = "none"
  /\ NoThrow
  /\ tm \in timers
  /\ timers' = timers \ {tm}
  /\ LET text == Trim(inputValue)
         coords == parseLatLon(text)
     IN IF text = <<>>
        THEN /\ PartShowSuggestions(<<>>, "latest")
             /\ inflight' = Supersede
             /\ UNCHANGED selectedIndex
        ELSE IF coords.ok
        THEN /\ PartShowSuggestions(
                  << [display_name |-> PlainLabel(coords.lat, coords.lon),
                      lat |-> coords.lat, lon |-> coords.lon] >>,
                  "latest")
             /\ selectedIndex' = 0
             /\ inflight' = Supersede
        ELSE /\ Len(inflight) < MaxInflight
             /\ inflight' = Fetch(text)
             /\ UNCHANGED <<content, items, visible, rendered, selectedIndex>>
  /\ NoEvent
  /\ UNCHANGED <<variant, inputValue, typed, timerHandle, currentQuery>>

\* What throws inside doSearch's try block: a network error, resp.json() on a
\* body that is not JSON, results.map on a value that is not an array.
PartRaises(kind) == kind \in {"throw", "notjson", "notarray", "arraylike"}

\* try { ... } catch (err)
PartCatches(kind) == TRUE

\* The request settles and doSearch resumes after its await.
PartFetchDone(k, o) ==
  /\ variant = "part"
  /\ Mounted
  /\ downs' = IF o.kind = "ok" /\ Len(o.list) > 0 THEN 0 ELSE NoCount
  /\ k \in 1..Len(inflight)
  /\ settled' = Currency(inflight[k])
  /\ inflight' = Settle(k)
  /\ thrown' = (PartRaises(o.kind) /\ ~PartCatches(o.kind))
  /\ IF o.kind = "ok"
     THEN /\ PartShowSuggestions(o.list, Currency(inflight[k]))
          /\ selectedIndex' = 0 - 1
     ELSE /\ PartShowSuggestions(<<>>, Currency(inflight[k]))
          /\ UNCHANGED selectedIndex
  /\ NoEvent
  /\ UNCHANGED <<variant, inputValue, typed, timers, timerHandle, currentQuery>>

\* dispatchSelected dispatching its event twice.
dispatchSelectedTwice(detail) == emitted' = <<detail, detail>>

\* dispatchSelected(detail)
dispatchSelected(detail) == DispatchEvent(detail)

\* selectSuggestion(li)
selectSuggestion(li) ==
  /\ inputValue' = li.label
  /\ visible' = FALSE
  /\ dispatchSelected([display_name |-> li.label, lat |-> li.lat, lon |-> li.lon])

\* checkDirectLatLon(text)
checkDirectLatLon(text) ==
  LET coords == parseLatLon(text) IN
  IF coords.ok
  THEN dispatchSelected([display_name |-> PlainLabel(coords.lat, coords.lon),
                         lat |-> coords.lat, lon |-> coords.lon])
  ELSE NoEvent

\* the 'click' listener of the suggestion list, for a click on the i-th <li>
PartClickItem(i) ==
  /\ variant = "part"
  /\ Mounted
  /\ downs' = NoCount
  /\ settled' = "none"
  /\ NoThrow
  /\ visible
  /\ i \in 1..Len(items)
  /\ selectSuggestion(items[i])
  /\ UNCHANGED <<variant, typed, timers, timerHandle, currentQuery,
                 inflight, content, items, rendered, selectedIndex>>

\* The index advanced without Math.min: nothing stops it at the last item.
MinUnclamped(a, b) == a

\* Math.min with wrap-around: past the end the index goes back to the first item.
MinWrap(a, b) == IF a > b THEN 0 ELSE a

Min(a, b) == IF a < b THEN a ELSE b
Max(a, b) == IF a > b THEN a ELSE b

\* the 'keydown' listener of the input
PartKeydown(key) ==
  /\ variant = "part"
  /\ Mounted
  /\ downs' = IF key = "ArrowDown" /\ visible /\ Len(items) > 0 /\ downs \in 0..(MaxDowns - 1)
             THEN downs + 1
             ELSE NoCount
  /\ settled' = "none"
  /\ NoThrow
  /\ IF ~visible \/ Len(items) = 0
     THEN /\ NoEvent
          /\ UNCHANGED <<inputValue, visible, selectedIndex>>
     ELSE IF key = "ArrowDown"
     THEN /\ selectedIndex' = Min(selectedIndex + 1, Len(items) - 1)
          /\ NoEvent
          /\ UNCHANGED <<inputValue, visible>>
     ELSE IF key = "ArrowUp"
     THEN /\ selectedIndex' = Max(selectedIndex - 1, 0)
          /\ NoEvent
          /\ UNCHANGED <<inputValue, visible>>
     ELSE IF key = "Enter"
     THEN /\ IF selectedIndex >= 0 /\ selectedIndex + 1 \in 1..Len(items)
             THEN selectSuggestion(items[selectedIndex + 1])
             ELSE /\ checkDirectLatLon(inputValue)
                  /\ UNCHANGED <<inputValue, visible>>
          /\ UNCHANGED selectedIndex
     ELSE IF key = "Escape"
     THEN /\ visible' = FALSE
          /\ NoEvent
          /\ UNCHANGED <<inputValue, selectedIndex>>
     ELSE /\ NoEvent
          /\ UNCHANGED <<inputValue, visible, selectedIndex>>
  /\ UNCHANGED <<variant, typed, timers, timerHandle, currentQuery,
                 inflight, content, items, rendered>>

\* the document 'click' listener, for a target outside the root
PartOutsideClick ==
  /\ variant = "part"
  /\ Mounted
  /\ downs' = NoCount
  /\ settled' = "none"
  /\ NoThrow
  /\ visible' = FALSE
  /\ NoEvent
  /\ UNCHANGED <<variant, inputValue, typed, timers, timerHandle, currentQuery, inflight, content, items, rendered, selectedIndex>>

\* A click inside the root that is on no <li> (the input, the hint): the list's
\* listener, if reached, finds no li and the document listener finds the
\* target inside.
PartInsideClick ==
  /\ variant = "part"
  /\ Mounted
  /\ downs' = NoCount
  /\ settled' = "none"
  /\ NoThrow
  /\ NoEvent
  /\ UNCHANGED <<variant, inputValue, typed, timers, timerHandle, currentQuery, inflight, content, items, visible, rendered, selectedIndex>>

\* ======================================== public/location-widget.js
MaxQueryLength == 200

\* debounce: clearTimeout(timeout) in executedFunction
PublicCancelPending == ClearTimeout(timers, timerHandle)

\* the 'input' listener: handleInput, the debounced wrapper
PublicInput(text) ==
  /\ variant = "public"
  /\ Mounted
  /\ settled' = "none"
  /\ NoThrow
  /\ UNCHANGED downs
  /\ inputValue' = text
  /\ typed' = text
  /\ Cardinality(PublicCancelPending) < MaxTimers
  /\ timers' = PublicCancelPending \cup {[id |-> FreshId(PublicCancelPending), query |-> <<>>]}
  /\ timerHandle' = FreshId(PublicCancelPending)
  /\ NoEvent
  /\ UNCHANGED <<variant, currentQuery, inflight, content, items, visible,
                 rendered, selectedIndex>>

\* searchLocation's early returns: no request for a query shorter than 2 or
\* longer than 200 characters.
SearchReturnsEarly(query) ==
  \/ Len(Trim(query)) < 2
  \/ Len(Trim(query)) > MaxQueryLength

\* The results.forEach rendering of handleInput.
PublicRender(results, by) ==
  /\ content' = "items"
  /\ items' = [i \in 1..Len(results) |->
                 Item(results[i].display_name, results[i].display_name,
                      results[i].lat, results[i].lon)]
  /\ visible' = TRUE
  /\ rendered' = by

\* The debounce timer fires: `later`, then the body of handleInput up to the
\* await of a request.
PublicHandleInput(tm) ==
  /\ variant = "public"
  /\ Mounted
  /\ settled' = "none"
  /\ NoThrow
  /\ UNCHANGED downs
  /\ tm \in timers
  /\ timers' = ClearTimeout(timers \ {tm}, timerHandle)
  /\ LET query == Trim(inputValue)
         coords == parseCoordinates(query)
     IN IF query = <<>>
        THEN /\ visible' = FALSE
             /\ inflight' = Supersede
             /\ UNCHANGED <<content, items, rendered>>
        ELSE IF coords.ok
        THEN /\ content' = "items"
             /\ items' = << Item(CoordinatesLabel("Use coordinates: ", coords.lat, coords.lon),
                                 CoordinatesLabel("Coordinates: ", coords.lat, coords.lon),
                                 coords.lat, coords.lon) >>
             /\ visible' = TRUE
             /\ rendered' = "latest"
             /\ inflight' = Supersede
        ELSE IF SearchReturnsEarly(query)
        THEN /\ visible' = FALSE
             /\ inflight' = Supersede
             /\ UNCHANGED <<content, items, rendered>>
        ELSE /\ Len(inflight) < MaxInflight
             /\ inflight' = Fetch(query)
             /\ UNCHANGED <<content, items, visible, rendered>>
  /\ NoEvent
  /\ UNCHANGED <<variant, inputValue, typed, timerHandle, currentQuery, selectedIndex>>

\* What throws inside searchLocation's try block: a network error,
\* response.json() on a body that is not JSON.
PublicRaises(kind) == kind \in {"throw", "notjson"}

\* try { ... } catch (error) in searchLocation
PublicCatches(kind) == TRUE

\* What searchLocation returns once the request has settled.
SearchResults(o) == IF o.kind = "ok" THEN o.list ELSE <<>>

\* searchLocation settles and handleInput resumes after its await.
PublicFetchDone(k, o) ==
  /\ variant = "public"
  /\ Mounted
  /\ k \in 1..Len(inflight)
  /\ UNCHANGED downs
  /\ settled' = Currency(inflight[k])
  /\ inflight' = Settle(k)
  /\ thrown' = (PublicRaises(o.kind) /\ ~PublicCatches(o.kind))
  /\ IF Len(SearchResults(o)) = 0
     THEN /\ visible' = FALSE
          /\ UNCHANGED <<content, items, rendered>>
     ELSE PublicRender(SearchResults(o), Currency(inflight[k]))
  /\ NoEvent
  /\ UNCHANGED <<variant, inputValue, typed, timers, timerHandle, currentQuery, selectedIndex>>

\* selectLocation without its isNaN check: whatever parseFloat gave is committed.
PublicSelectLocationUnchecked(location) ==
  LET lat == ParseFloat(location.lat)
      lon == ParseFloat(location.lon)
  IN /\ inputValue' = location.display_name
     /\ visible' = FALSE
     /\ DispatchEvent([display_name |-> location.display_name, lat |-> lat, lon |-> lon])

\* selectLocation(location)
PublicSelectLocation(location) ==
  LET lat == ParseFloat(location.lat)
      lon == ParseFloat(location.lon)
  IN IF lat.t = "nan" \/ lon.t = "nan"
     THEN /\ NoEvent
          /\ UNCHANGED <<inputValue, visible>>
     ELSE /\ inputValue' = IF location.display_name # <<>>
                           THEN location.display_name
                           ELSE PlainLabel(lat, lon)
          /\ visible' = FALSE
          /\ DispatchEvent([display_name |-> IF location.display_name # <<>>
                                             THEN location.display_name
                                             ELSE CoordinatesLabel("Coordinates: ", lat, lon),
                            lat |-> lat, lon |-> lon])

\* A pointer click on the i-th rendered suggestion.
PublicClickItem(i) ==
  /\ variant = "public"
  /\ Mounted
  /\ settled' = "none"
  /\ NoThrow
  /\ UNCHANGED downs
  /\ visible
  /\ i \in 1..Len(items)
  /\ PublicSelectLocation(items[i])
  /\ UNCHANGED <<variant, typed, timers, timerHandle, currentQuery,
                 inflight, content, items, rendered, selectedIndex>>

\* the 'keydown' listener: Enter clicks the first suggestion element
PublicKeydown(key) ==
  /\ variant = "public"
  /\ Mounted
  /\ settled' = "none"
  /\ NoThrow
  /\ UNCHANGED downs
  /\ IF key = "Enter" /\ Len(items) >= 1
     THEN PublicSelectLocation(items[1])
     ELSE /\ NoEvent
          /\ UNCHANGED <<inputValue, visible>>
  /\ UNCHANGED <<variant, typed, timers, timerHandle, currentQuery,
                 inflight, content, items, rendered, selectedIndex>>

\* A click inside the container that is on no suggestion (the input).
PublicInsideClick ==
  /\ variant = "public"
  /\ Mounted
  /\ UNCHANGED downs
  /\ settled' = "none"
  /\ NoThrow
  /\ NoEvent
  /\ UNCHANGED <<variant, inputValue, typed, timers, timerHandle, currentQuery, inflight, content, items, visible, rendered, selectedIndex>>

\* The document listener without its effect: the list stays as it is.
PublicOutsideClickKeeps ==
  /\ variant = "public"
  /\ Mounted
  /\ UNCHANGED downs
  /\ settled' = "none"
  /\ NoThrow
  /\ NoEvent
  /\ UNCHANGED <<variant, inputValue, typed, timers, timerHandle, currentQuery, inflight, content, items, visible, rendered, selectedIndex>>

\* the document 'click' listener, for a target outside the container
PublicOutsideClick ==
  /\ variant = "public"
  /\ Mounted
  /\ settled' = "none"
  /\ NoThrow
  /\ UNCHANGED downs
  /\ visible' = FALSE
  /\ NoEvent
  /\ UNCHANGED <<variant, inputValue, typed, timers, timerHandle, currentQuery, inflight, content, items, rendered, selectedIndex>>

\* ============================================================== system
Next ==
  \/ \E text \in Texts : ReadmeInput(text)
  \/ \E tm \in timers : ReadmeHandleSearch(tm)
  \/ \E k \in 1..Len(inflight), o \in Outcomes : ReadmeFetchDone(k, o)
  \/ \E i \in 1..Len(items) : ReadmeClickItem(i)
  \/ \E key \in Keys : ReadmeKeydown(key)
  \/ ReadmeOutsideClick
  \/ ReadmeInsideClick
  \/ \E op \in ReadmeMethods, text \in Texts : ReadmeInertCall(op, text)
  \/ \E text \in Texts : PartInput(text)
  \/ \E tm \in timers : PartDoSearch(tm)
  \/ \E k \in 1..Len(inflight), o \in Outcomes : PartFetchDone(k, o)
  \/ \E i \in 1..Len(items) : PartClickItem(i)
  \/ \E key \in Keys : PartKeydown(key)
  \/ PartOutsideClick
  \/ PartInsideClick
  \/ PartInertCall
  \/ \E text \in Texts : PublicInput(text)
  \/ \E tm \in timers : PublicHandleInput(tm)
  \/ \E k \in 1..Len(inflight), o \in Outcomes : PublicFetchDone(k, o)
  \/ \E i \in 1..Len(items) : PublicClickItem(i)
  \/ \E key \in Keys : PublicKeydown(key)
  \/ PublicOutsideClick
  \/ PublicInsideClick

Spec == Init /\ [][Next]_vars

\* ============================================================== claims
\* The coordinate grammar as the specification words it: optional sign,
\* digits, optional fractional part; comma; optional blanks; a second such
\* number; with latitude in [-90, 90] and longitude in [-180, 180].
ClaimNumber(tok) ==
  LET b == IF tok # <<>> /\ tok[1] = "-" THEN Tail(tok) ELSE tok
      dots == {i \in 1..Len(b) : b[i] = "."}
  IN /\ b # <<>>
     /\ \A i \in 1..Len(b) : b[i] \in Digits \cup {"."}
     /\ Cardinality(dots) <= 1
     /\ b[1] # "."
     /\ b[Len(b)] # "."

ClaimCoordinates(text) ==
  LET s == Trim(text) IN
  IF /\ Cardinality(Commas(s)) = 1
     /\ ClaimNumber(LeftToken(s))
     /\ ClaimNumber(RightToken(s))
     /\ InRange(ParseFloatText(LeftToken(s)), ParseFloatText(RightToken(s)))
  THEN [ok |-> TRUE, lat |-> ParseFloatText(LeftToken(s)), lon |-> ParseFloatText(RightToken(s))]
  ELSE Null

\* The step is the firing of debounce timer tm.
Fires(tm) == ReadmeHandleSearch(tm) \/ PartDoSearch(tm) \/ PublicHandleInput(tm)

\* The query that firing forwards.
ForwardedText(tm) == IF variant = "readme" THEN tm.query ELSE Trim(inputValue)

\* The step is an 'input' event.
InputEvent == \E text \in Texts : ReadmeInput(text) \/ PartInput(text) \/ PublicInput(text)

\* The step issued a request to the geocoder.
Requested == Len(inflight') = Len(inflight) + 1

\* A candidate whose coordinates are numbers within range.
ValidCandidate(c) == InRange(ParseFloat(c.lat), ParseFloat(c.lon))

\* C1: in README.md's LocationWidget the outcome of a request whose query text
\* differs from the query forwarded last is never rendered, and once no request
\* is in flight the element no longer shows the loading notice: it holds the
\* outcome of a search for the current query.
C1_StaleOutcomeNeverRendered ==
  variant = "readme" =>
    /\ rendered # "stale"
    /\ (inflight = <<>> => content # "loading")

\* A superseded request for another text has just settled, and the element
\* holds the later query's candidates.
C1_Witness ==
  /\ variant = "readme"
  /\ settled = "stale"
  /\ inflight = <<>>
  /\ content = "items"
  /\ rendered = "latest"

\* C2: in both createLocationWidget variants the result of a request that is
\* no longer the most recently issued one is not rendered.
C2_StaleResultDiscarded ==
  variant \in {"public", "part"} => rendered # "stale"

C4_ShortInputHidesAtOnce ==
  [][(InputEvent /\ Len(Trim(typed')) < 2) => (~visible' /\ timers' = {})]_vars

\* C5: when the debounce fires for a text that is no coordinate literal, a
\* request is made if and only if the trimmed text has 2 characters or more.
C5_RequestIffTwoCharacters ==
  [][\A tm \in timers :
       (Fires(tm) /\ ~ReadmePatternMatches(ForwardedText(tm)))
         => (Requested <=> Len(ForwardedText(tm)) >= 2)]_vars

\* C6: for every text of the coordinate grammar with both numbers in range,
\* resolving it renders exactly one candidate whose lat and lon are the two
\* parsed numbers, and makes no request.
C6_CoordinatesResolveLocally ==
  [][\A tm \in timers :
       (Fires(tm) /\ ClaimCoordinates(ForwardedText(tm)).ok)
         => /\ ~Requested
            /\ visible'
            /\ content' = "items"
            /\ Len(items') = 1
            /\ ParseFloat(items'[1].lat) = ClaimCoordinates(ForwardedText(tm)).lat
            /\ ParseFloat(items'[1].lon) = ClaimCoordinates(ForwardedText(tm)).lon]_vars

\* C7: a query of 2 to 200 characters that fails the coordinate grammar or is
\* out of range is a place name: the remote search is attempted for it and no
\* synthesized candidate is rendered.
C7_OtherTextSearchesRemotely ==
  [][\A tm \in timers :
       (/\ Fires(tm)
        /\ Len(ForwardedText(tm)) >= 2
        /\ Len(ForwardedText(tm)) <= 200
        /\ ~ClaimCoordinates(ForwardedText(tm)).ok)
         => /\ Requested
            /\ inflight'[Len(inflight')].query = ForwardedText(tm)
            /\ (content' = "items" => items' = items)]_vars

\* C8: every candidate in the visible suggestion list has lat in [-90, 90]
\* and lon in [-180, 180].
C8_VisibleCandidatesInRange ==
  (visible /\ content = "items") => \A i \in 1..Len(items) : ValidCandidate(items[i])

\* The step commits the i-th displayed candidate: a click on it, or Enter on
\* it as the active item.
Commits(i) ==
  \/ ReadmeClickItem(i)
  \/ PartClickItem(i)
  \/ PublicClickItem(i)
  \/ (variant = "part" /\ visible /\ selectedIndex = i - 1 /\ PartKeydown("Enter"))

\* C9: committing a displayed candidate sets the input text to its display
\* name, hides the list and publishes one event carrying the display name and
\* the candidate's lat and lon as numbers.
C9_CommitPublishesNumbers ==
  [][\A i \in 1..Len(items) :
       (Commits(i) /\ ValidCandidate(items[i]))
         => /\ inputValue' = items[i].display_name
            /\ ~visible'
            /\ emitted' = << [display_name |-> items[i].display_name,
                              lat |-> ParseFloat(items[i].lat),
                              lon |-> ParseFloat(items[i].lon)] >>]_vars

\* The step is a click on a rendered candidate or an Enter keypress.
CommitAction ==
  \/ \E i \in 1..Len(items) : ReadmeClickItem(i) \/ PartClickItem(i) \/ PublicClickItem(i)
  \/ PartKeydown("Enter")
  \/ PublicKeydown("Enter")

\* The candidate's coordinates parse as numbers.
Numeric(c) == ParseFloat(c.lat).t = "num" /\ ParseFloat(c.lon).t = "num"

\* C10: a location-selected event is dispatched only by a click on a rendered
\* candidate or by Enter, never by any other step and never more than one per
\* step; every click that commits a candidate, and every Enter that commits
\* the active (part_000) or first (public) candidate, dispatches exactly one.
\* In public/location-widget.js a candidate is committed only if its lat and
\* lon parse as numbers.
C10_OneEventPerCommit ==
  [][/\ emitted' # <<>> => (Len(emitted') = 1 /\ CommitAction)
     /\ \A i \in 1..Len(items) :
          (\/ ReadmeClickItem(i)
           \/ PartClickItem(i)
           \/ (PublicClickItem(i) /\ Numeric(items[i])))
            => Len(emitted') = 1
     /\ (/\ PartKeydown("Enter")
         /\ visible
         /\ selectedIndex + 1 \in 1..Len(items))
          => Len(emitted') = 1
     /\ (/\ PublicKeydown("Enter")
         /\ Len(items) >= 1
         /\ Numeric(items[1]))
          => Len(emitted') = 1]_vars

\* A commit has just published its event.
C10_Witness ==
  /\ Len(emitted) = 1
  /\ ~visible
  /\ inputValue = emitted[1].display_name

\* C11: in part_000, Enter pressed while the list is hidden or empty and the
\* input holds a valid coordinate literal publishes one event whose lat and lon
\* are the parsed numbers.
C11_EnterFallbackPublishes ==
  [][(/\ PartKeydown("Enter")
      /\ (~visible \/ Len(items) = 0)
      /\ ClaimCoordinates(inputValue).ok)
       => /\ Len(emitted') = 1
          /\ ParseFloat(emitted'[1].lat) = ClaimCoordinates(inputValue).lat
          /\ ParseFloat(emitted'[1].lon) = ClaimCoordinates(inputValue).lon]_vars

\* The smaller of two numbers, as the claim words it.
Smaller(a, b) == IF a <= b THEN a ELSE b

\* The step is key pressed in part_000's input.
ArrowStep == PartKeydown("ArrowDown") \/ PartKeydown("ArrowUp")

\* C12: in part_000, N ArrowDown presses in a row on a visible list of length
\* L freshly rendered from fetched results leave the active index at
\* min(L-1, N-1); ArrowDown never moves it past L-1, ArrowUp never below 0 and
\* never around to the end; both leave it alone when the list is hidden or empty.
C12_ArrowKeysClamp ==
  /\ []((variant = "part" /\ downs >= 1)
          => (visible /\ selectedIndex = Smaller(Len(items) - 1, downs - 1)))
  /\ [][(PartKeydown("ArrowDown") /\ visible /\ Len(items) > 0)
          => (selectedIndex' <= Len(items) - 1 /\ selectedIndex' >= selectedIndex)]_vars
  /\ [][(PartKeydown("ArrowUp") /\ visible /\ Len(items) > 0)
          => (selectedIndex' >= 0 /\ (selectedIndex >= 0 => selectedIndex' <= selectedIndex))]_vars
  /\ [][(ArrowStep /\ (~visible \/ Len(items) = 0))
          => selectedIndex' = selectedIndex]_vars

\* Three ArrowDown presses on a fresh list of two: the index stopped at the end.
C12_Witness ==
  /\ variant = "part"
  /\ visible
  /\ Len(items) = 2
  /\ downs = 3
  /\ selectedIndex = 1

\* The step replaces part_000's displayed list: the debounced search rendering
\* without a request, or a request settling.
PartReplacesList ==
  \/ (\E tm \in timers : PartDoSearch(tm)) /\ ~Requested
  \/ variant = "part" /\ settled' # "none"

\* C13: in part_000 every replacement of the displayed list resets the active
\* index to -1 and leaves the list visible exactly when the new list is not empty.
C13_ReplacementResetsIndex ==
  [][PartReplacesList
       => /\ selectedIndex' = 0 - 1
          /\ (visible' <=> Len(items') > 0)]_vars

\* The step settles the k-th request in flight with outcome o.
FetchDone(k, o) == ReadmeFetchDone(k, o) \/ PartFetchDone(k, o) \/ PublicFetchDone(k, o)

\* C14: in every variant a failed search (non-2xx status, network error, body
\* that is not JSON or not an array) is recovered locally: the request is
\* settled, nothing escapes the handler, and the step renders no candidates
\* (the element is hidden or holds a notice, or, for a superseded request in
\* README.md, is left as it was).
C14_FailureRecoveredLocally ==
  [][\A k \in 1..Len(inflight) : \A kind \in Failures :
       FetchDone(k, [kind |-> kind, list |-> <<>>])
         => /\ ~thrown'
            /\ inflight' = Settle(k)
            /\ \/ ~visible'
               \/ content' \in {"failed", "notfound"} /\ items' = <<>>
               \/ UNCHANGED <<content, items, visible>>]_vars

\* README.md shows its failure notice, nothing escaped, and a later input
\* event has armed the debounce timer again.
C14_Witness ==
  /\ content = "failed"
  /\ visible
  /\ items = <<>>
  /\ ~thrown
  /\ inflight = <<>>
  /\ timers # {}

\* Some rendered candidate can be committed: by a click while the list is
\* visible, or, in public/location-widget.js, by Enter, which clicks the first
\* suggestion element whether or not the list is shown.
Committable ==
  /\ content = "items"
  /\ Len(items) > 0
  /\ (visible \/ variant = "public")

\* C15: in every variant, when the latest request succeeds with an empty array
\* the suggestion element ends up hidden, with no list or notice shown, and no
\* candidate rendered earlier can still be committed.
C15_EmptyResultHides ==
  [][\A k \in 1..Len(inflight) :
       (inflight[k].latest /\ FetchDone(k, [kind |-> "ok", list |-> <<>>]))
         => (~visible' /\ ~Committable')]_vars

\* The step is a click outside the widget's subtree.
OutsideClick == ReadmeOutsideClick \/ PartOutsideClick \/ PublicOutsideClick

\* The step is a click inside the widget's subtree: on no candidate, or on the
\* i-th rendered candidate.
InsideClick ==
  \/ ReadmeInsideClick \/ PartInsideClick \/ PublicInsideClick
  \/ \E i \in 1..Len(items) : ReadmeClickItem(i) \/ PartClickItem(i) \/ PublicClickItem(i)

\* C16: in every variant a click outside the widget's subtree hides the
\* suggestion list, and a click inside it leaves the list's visibility as it
\* was unless the click commits a candidate.
C16_OutsideClickHides ==
  [][/\ OutsideClick => ~visible'
     /\ (InsideClick /\ emitted' = <<>>) => visible' = visible]_vars

\* README.md's list was rendered for the text typed last and nothing was
\* committed, yet it is hidden: a click outside (or Escape) has hidden it.
C16_Witness ==
  /\ variant = "readme"
  /\ ~visible
  /\ content = "items"
  /\ typed = <<"S", "a">>
  /\ inputValue = typed
  /\ currentQuery = typed
  /\ emitted = <<>>

\* C17: when the mount container is absent the widget is inert: no operation
\* invoked on it throws, publishes an event or changes anything.
C17_MissingContainerInert ==
  [][~container
       => /\ ~thrown'
          /\ emitted' = <<>>
          /\ UNCHANGED <<inputValue, timers, inflight, content, items, visible>>]_vars

\* C18: in README.md's LocationWidget, once an input event with a trimmed text
\* shorter than 2 characters has hidden the suggestions they stay hidden until
\* the debounce forwards a later query.  That event cancelled the timer and
\* armed none, so for as long as it is the last input event no query is
\* forwarded.
C18_ShortInputStaysHidden ==
  (variant = "readme" /\ container /\ Len(Trim(typed)) < 2) => ~visible

\* C19: in every variant, after a commit has hidden the suggestion list, a
\* request issued before the commit that settles afterwards neither shows the
\* list again nor replaces its contents.  Checked for the requests that settle
\* right after the commit, all of which were issued before it.
C19_CommitStaysHidden ==
  [][(Len(emitted) = 1 /\ ~visible /\ settled' # "none")
       => (~visible' /\ UNCHANGED <<content, items>>)]_vars

\* C20: in both createLocationWidget variants, Enter pressed while the
\* suggestion list is hidden publishes no candidate left over from an earlier
\* render.
C20_EnterNeedsVisibleList ==
  [][((PartKeydown("Enter") \/ PublicKeydown("Enter")) /\ ~visible)
       => \A i \in 1..Len(items) :
            \A e \in 1..Len(emitted') :
              emitted'[e].display_name # items[i].display_name]_vars

\* C21: in part_000, whenever the suggestion list is visible the active index
\* lies between -1 and the number of rendered items minus one, so Enter with
\* an index of 0 or more commits the item of the displayed list at that index.
C21_ActiveIndexInBounds ==
  /\ []((variant = "part" /\ visible)
          => (selectedIndex >= 0 - 1 /\ selectedIndex <= Len(items) - 1))
  /\ [][(PartKeydown("Enter") /\ visible /\ selectedIndex >= 0)
          => /\ selectedIndex + 1 \in 1..Len(items)
             /\ Len(emitted') = 1
             /\ emitted'[1].display_name = items[selectedIndex + 1].display_name
             /\ emitted'[1].lat = items[selectedIndex + 1].lat
             /\ emitted'[1].lon = items[selectedIndex + 1].lon]_vars

\* A list of two rendered from a superseded request, with the last item active.
C21_Witness ==
  /\ variant = "part"
  /\ visible
  /\ rendered = "stale"
  /\ Len(items) = 2
  /\ selectedIndex = 1

\* C22: in README.md's LocationWidget the guard never discards the latest
\* query: when the request of the most recently forwarded query settles before
\* a later query is forwarded, its outcome is rendered; so once no timer is
\* pending and no request is in flight, the container holds the outcome of the
\* last forwarded query.
C22_LatestOutcomeRendered ==
  /\ [][\A k \in 1..Len(inflight) : \A o \in Outcomes :
          (ReadmeFetchDone(k, o) /\ inflight[k].latest)
            => /\ rendered' = "latest"
               /\ visible'
               /\ content' = (IF o.kind = "ok" /\ Len(o.list) > 0 THEN "items"
                              ELSE IF ReadmeRaises(o.kind) THEN "failed"
                              ELSE "notfound")]_vars
  /\ []((variant = "readme" /\ container /\ timers = {} /\ inflight = <<>>)
          => rendered = "latest")

\* C23: in public/location-widget.js, selectLocation called with a location
\* whose lat or lon does not parse to a number (from a click on its item, or
\* from Enter clicking the first item) publishes no event and leaves the input
\* text and the list's visibility and contents as they were.
C23_InvalidLocationIgnored ==
  [][/\ \A i \in 1..Len(items) :
          (PublicClickItem(i) /\ ~Numeric(items[i]))
            => (emitted' = <<>> /\ UNCHANGED <<inputValue, visible, content, items>>)
     /\ (PublicKeydown("Enter") /\ Len(items) >= 1 /\ ~Numeric(items[1]))
          => (emitted' = <<>> /\ UNCHANGED <<inputValue, visible, content, items>>)]_vars

\* A visible list holds a candidate whose lat is not a number, a step after
\* the one that rendered it has been taken, and the input still holds the
\* typed text.
C23_Witness ==
  /\ variant = "public"
  /\ visible
  /\ content = "items"
  /\ \E i \in 1..Len(items) : ~Numeric(items[i])
  /\ settled = "none"
  /\ emitted = <<>>
  /\ inputValue = typed

====
